---- MODULE Spec2Model ----
(***************************************************************************)
(* Model of assets/js/optimized-quiz-performance.js: the TTL media cache,  *)
(* the named debouncer, the question locator, the media fetcher and        *)
(* renderer, the answer watcher and the lifecycle (initialize / cleanup).  *)
(* One action is one event-loop task (with the microtasks it triggers).    *)
(***************************************************************************)
EXTENDS Integers, Sequences, FiniteSets, TLC

\* ---------------------------------------------------------------- config
debounceDelay == 100
cacheTimeout == 30000
answerCheckDelay == 50

\* ---------------------------------------------------------------- bounds
MaxTicks == 2
MaxInFlight == 2
MaxObservers == 2
MaxRecords == 2

\* ------------------------------------------------------------- JS values
null == 0
NoAttr == -1
NoUrl == -1
NoEntry == [data |-> [type |-> "none", url |-> 0], timestamp |-> -1]
NoMedia == [type |-> "none", url |-> 0]

Truthy(v) == v # null /\ v # NoAttr

Min(S) == CHOOSE x \in S : \A y \in S : x <= y

\* The clock advances by the two delays the script distinguishes.
TimeSteps == {answerCheckDelay, cacheTimeout}

\* ------------------------------------------------------------------ DOM
\* A list item: its own data-question-id, a descendant's, whether its answer
\* input sits in a .wpProQuiz_questionListItem wrapper, whether it has a hint
\* button (.wpProQuiz_tip).
ItemA == [ownId |-> 1, descId |-> NoAttr, hasWrapper |-> TRUE, hasTip |-> TRUE]
ItemB == [ownId |-> NoAttr, descId |-> NoAttr, hasWrapper |-> TRUE, hasTip |-> FALSE]
ItemC == [ownId |-> NoAttr, descId |-> 2, hasWrapper |-> FALSE, hasTip |-> FALSE]

Pages == {<<ItemA, ItemB>>, <<ItemA>>, <<ItemB>>, <<ItemC>>, << >>}

\* A longer list whose third item carries no id of its own.
LongPage == <<ItemA, ItemC, ItemB>>

PriorContent == <<[tag |-> "prior", src |-> 0], [tag |-> "prior", src |-> 0]>>
FallbackMarkup == <<[tag |-> "div.no-media", src |-> 0]>>

\* What the media endpoint can answer to a request for question q.
\* A descriptor the renderer knows and one it does not, per question.
Payloads(q) == IF q = 1
               THEN {[type |-> "image", url |-> q], [type |-> "audio", url |-> q]}
               ELSE {[type |-> "video", url |-> q], [type |-> "image", url |-> NoUrl]}

Responses(q) == {[kind |-> k, media |-> NoMedia] :
                    k \in {"neterr", "badjson", "fail", "nodata", "nomedia"}}
                \cup {[kind |-> "media", media |-> m] : m \in Payloads(q)}

VARIABLES
    now, ticks,                 \* Date.now() and the number of clock advances
    rootPresent,                \* .wpProQuiz_content is in the document
    containerPresent,           \* #question-media is in the document
    enforceHint,                \* lilacQuizSidebar.enforceHint
    items, visible, review,     \* the question list and its dynamic classes
    navDisabled,                \* disabled property of .wpProQuiz_button
    container,                  \* children of #question-media
    initialized, currentQuestion, mediaCache, observers, debounceTimers,
    initPending,                \* initialize is scheduled (ready / rAF)
    timers,                     \* the browser's pending timeouts
    mo,                         \* the browser's MutationObserver objects
    inflight,                   \* fetches not yet settled
    latest,                     \* per name: what became of the last debounce call
    fired,                      \* per item: how often the handlers ran since it was armed
    ev                          \* what the last task did

vars == <<now, ticks, rootPresent, containerPresent, enforceHint, items, visible,
          review, navDisabled, container, initialized,
          currentQuestion, mediaCache, observers, debounceTimers, initPending,
          timers, mo, inflight, latest, fired, ev>>

clockVars == <<now, ticks>>
domVars == <<rootPresent, containerPresent, enforceHint, items, visible, review>>
watchVars == <<navDisabled, observers, mo, fired>>
mediaVars == <<container, mediaCache, inflight>>
debVars == <<debounceTimers, timers, latest>>
lifeVars == <<initialized, initPending>>

\* ----------------------------------------------------- debounce names
NavKey == <<"navigation">>
AnswerKey(index) == <<"answer-check-", index>>
Names == {NavKey} \cup {AnswerKey(i - 1) : i \in 1..2}
DelayOf(key) == IF key = NavKey THEN debounceDelay ELSE answerCheckDelay

Without(f, k) == [x \in DOMAIN f \ {k} |-> f[x]]
Range(f) == {f[x] : x \in DOMAIN f}
EmptyMap == << >>

\* ============================================================ TTL cache
cacheMedia(cache, questionId, mediaData, t) ==
    (questionId :> [data |-> mediaData, timestamp |-> t]) @@ cache

\* Variant: an entry exactly cacheTimeout old still counts as fresh.
getCachedMedia_Inclusive(cache, questionId, t) ==
    LET cached == IF questionId \in DOMAIN cache THEN cache[questionId] ELSE NoEntry
    IN  IF cached # NoEntry /\ (t - cached.timestamp) <= cacheTimeout
        THEN [ret |-> cached.data, cache |-> cache]
        ELSE [ret |-> NoMedia, cache |-> Without(cache, questionId)]

\* Variant: a read that misses sweeps every expired entry.
getCachedMedia_Sweep(cache, questionId, t) ==
    LET cached == IF questionId \in DOMAIN cache THEN cache[questionId] ELSE NoEntry
        live == {k \in DOMAIN cache : (t - cache[k].timestamp) < cacheTimeout}
    IN  IF cached # NoEntry /\ (t - cached.timestamp) < cacheTimeout
        THEN [ret |-> cached.data, cache |-> cache]
        ELSE [ret |-> NoMedia, cache |-> [k \in live \ {questionId} |-> cache[k]]]

\* Returns the value handed back and the cache the call leaves behind.
getCachedMedia(cache, questionId, t) ==
    LET cached == IF questionId \in DOMAIN cache THEN cache[questionId] ELSE NoEntry
    IN  IF cached # NoEntry /\ (t - cached.timestamp) < cacheTimeout
        THEN [ret |-> cached.data, cache |-> cache]
        ELSE [ret |-> NoMedia, cache |-> Without(cache, questionId)]

\* ===================================================== question locator
\* The elements each selector matches, in document order.
Matches(selector, its, vis, rev) ==
    CASE selector = 1 -> {i \in 1..Len(its) : i \in rev}
      [] selector = 2 -> {i \in 1..Len(its) : i \in vis}
      [] selector = 3 -> 1..Len(its)

\* Variant: the position fallback is the 0-based index.
IdOfItem_ZeroBased(its, i) ==
    IF Truthy(its[i].ownId) THEN its[i].ownId
    ELSE IF Truthy(its[i].descId) THEN its[i].descId
    ELSE i - 1

IdOfItem(its, i) ==
    IF Truthy(its[i].ownId) THEN its[i].ownId
    ELSE IF Truthy(its[i].descId) THEN its[i].descId
    ELSE (i - 1) + 1

getCurrentQuestionId(its, vis, rev) ==
    LET hit == {s \in 1..3 : Matches(s, its, vis, rev) # {}}
    IN  IF hit = {} THEN null
        ELSE IdOfItem(its, Min(Matches(Min(hit), its, vis, rev)))

\* ============================================================= renderer
displayMedia(present, cont, mediaData) ==
    IF ~present THEN cont
    ELSE IF mediaData.type = "image" THEN <<[tag |-> "img", src |-> mediaData.url]>>
    ELSE IF mediaData.type = "video" THEN <<[tag |-> "video", src |-> mediaData.url]>>
    ELSE << >>

displayFallbackMedia(present, cont) ==
    IF present THEN FallbackMarkup ELSE cont

\* ============================================================== fetcher
NoLoad == [q |-> null, force |-> FALSE, before |-> NoEntry, ret |-> NoMedia,
           hit |-> FALSE, reqs |-> 0, called |-> FALSE]

\* Variant: the cache is consulted even when force is set.
loadQuestionMedia_ForceUsesCache(cache, present, cont, questionId, force, t) ==
    LET look == getCachedMedia(cache, questionId, t)
        before == IF questionId \in DOMAIN cache THEN cache[questionId] ELSE NoEntry
        info == [q |-> questionId, force |-> force, before |-> before,
                 ret |-> NoMedia, hit |-> FALSE, reqs |-> 0, called |-> TRUE]
    IN  IF ~Truthy(questionId)
        THEN [cache |-> cache, container |-> cont, info |-> info]
        ELSE IF look.ret # NoMedia
        THEN [cache |-> look.cache,
              container |-> displayMedia(present, cont, look.ret),
              info |-> [info EXCEPT !.ret = look.ret, !.hit = TRUE]]
        ELSE [cache |-> look.cache,
              container |-> cont,
              info |-> [info EXCEPT !.reqs = 1]]

\* The synchronous part of loadQuestionMedia: the cache and the container it
\* leaves, the number of requests it sends, and a summary of the call.
loadQuestionMedia(cache, present, cont, questionId, force, t) ==
    LET look == getCachedMedia(cache, questionId, t)
        before == IF questionId \in DOMAIN cache THEN cache[questionId] ELSE NoEntry
        info == [q |-> questionId, force |-> force, before |-> before,
                 ret |-> NoMedia, hit |-> FALSE, reqs |-> 0, called |-> TRUE]
    IN  IF ~Truthy(questionId)
        THEN [cache |-> cache, container |-> cont, info |-> info]
        ELSE IF ~force /\ look.ret # NoMedia
        THEN [cache |-> look.cache,
              container |-> displayMedia(present, cont, look.ret),
              info |-> [info EXCEPT !.ret = look.ret, !.hit = TRUE]]
        ELSE [cache |-> IF force THEN cache ELSE look.cache,
              container |-> cont,
              info |-> [info EXCEPT !.reqs = 1]]

\* pre: sent before the last cleanup; overtaken: a request sent later has
\* already been answered.
NewRequests(info) ==
    IF info.reqs = 1 THEN <<[q |-> info.q, pre |-> FALSE, overtaken |-> FALSE]>>
    ELSE << >>

\* ============================================================ debouncer
\* Variant: the pending timer of the name is not cleared.
debounce_NoCancel(S, key, fn, item, delay, t) ==
    LET tm1 == S.tm
        used == {x.id[2] : x \in {y \in S.tm : y.key = key}}
                   \cup {S.dt[k][2] : k \in DOMAIN S.dt \cap {key}}
        id == <<key, Min((1..(Cardinality(used) + 1)) \ used)>>
        prev == {x \in S.tm : x.key = key /\ ~x.stale /\ t < x.deadline}
        timer == [id |-> id, key |-> key, deadline |-> t + delay,
                  fn |-> fn, item |-> item, burst |-> prev # {}, stale |-> FALSE]
        kept == {IF x.key = key /\ t < x.deadline THEN [x EXCEPT !.stale = TRUE]
                 ELSE x : x \in tm1}
    IN  [dt |-> (key :> id) @@ S.dt,
         tm |-> kept \cup {timer},
         la |-> [S.la EXCEPT ![key] = "scheduled"]]

\* Variant: a name that is already registered keeps its old registration.
debounce_KeepFirst(S, key, fn, item, delay, t) ==
    LET tm1 == IF key \in DOMAIN S.dt
               THEN {x \in S.tm : x.id # S.dt[key]} ELSE S.tm
        used == {x.id[2] : x \in {y \in S.tm : y.key = key}}
                   \cup {S.dt[k][2] : k \in DOMAIN S.dt \cap {key}}
        id == <<key, Min((1..(Cardinality(used) + 1)) \ used)>>
        prev == {x \in S.tm : x.key = key /\ ~x.stale /\ t < x.deadline}
        timer == [id |-> id, key |-> key, deadline |-> t + delay,
                  fn |-> fn, item |-> item, burst |-> prev # {}, stale |-> FALSE]
        kept == {IF x.key = key /\ t < x.deadline THEN [x EXCEPT !.stale = TRUE]
                 ELSE x : x \in tm1}
    IN  [dt |-> IF key \in DOMAIN S.dt THEN S.dt ELSE (key :> id) @@ S.dt,
         tm |-> kept \cup {timer},
         la |-> [S.la EXCEPT ![key] = "scheduled"]]

\* dt: state.debounceTimers, tm: the browser's pending timeouts, la: what
\* became of the last call per name.  Timer ids are fresh per name.  A timer
\* remembers whether its call came before the delay of the previous call under
\* the name had passed (burst) and whether a later call came before its own
\* delay had passed (stale).
debounce(S, key, fn, item, delay, t) ==
    LET tm1 == IF key \in DOMAIN S.dt
               THEN {x \in S.tm : x.id # S.dt[key]} ELSE S.tm
        used == {x.id[2] : x \in {y \in S.tm : y.key = key}}
                   \cup {S.dt[k][2] : k \in DOMAIN S.dt \cap {key}}
        id == <<key, Min((1..(Cardinality(used) + 1)) \ used)>>
        prev == {x \in S.tm : x.key = key /\ ~x.stale /\ t < x.deadline}
        timer == [id |-> id, key |-> key, deadline |-> t + delay,
                  fn |-> fn, item |-> item, burst |-> prev # {}, stale |-> FALSE]
        kept == {IF x.key = key /\ t < x.deadline THEN [x EXCEPT !.stale = TRUE]
                 ELSE x : x \in tm1}
    IN  [dt |-> (key :> id) @@ S.dt,
         tm |-> kept \cup {timer},
         la |-> [S.la EXCEPT ![key] = "scheduled"]]

RECURSIVE debounceTimes(_, _, _, _, _, _, _)
debounceTimes(n, S, key, fn, item, delay, t) ==
    IF n = 0 THEN S
    ELSE debounceTimes(n - 1, debounce(S, key, fn, item, delay, t),
                       key, fn, item, delay, t)

DState == [dt |-> debounceTimers, tm |-> timers, la |-> latest]

SetDState(S) ==
    /\ debounceTimers' = S.dt
    /\ timers' = S.tm
    /\ latest' = S.la

\* The timeout callback clears the registration after the action returned.
afterAction(dt, key, threw) == IF threw THEN dt ELSE Without(dt, key)

\* ================================================================ events
NoReq == [q |-> null, pre |-> FALSE, overtaken |-> FALSE]
NoResp == [kind |-> "none", media |-> NoMedia]
NoTimer == [key |-> << >>, burst |-> FALSE, stale |-> FALSE]

\* What the properties need to know of the timer that fired.
Fired(t) == [key |-> t.key, burst |-> t.burst, stale |-> t.stale]
NoEv == [op |-> "init", timer |-> NoTimer, load |-> NoLoad,
         render |-> "none", wrote |-> FALSE, req |-> NoReq, resp |-> NoResp,
         nreq |-> 0, threw |-> FALSE, item |-> 0, records |-> 0,
         marker |-> "none", watchers |-> 0,
         had |-> [timers |-> 0, armed |-> 0, cache |-> 0]]

Ev(op) == [NoEv EXCEPT !.op = op, !.nreq = Len(inflight)]

TypeOK ==
    /\ now \in Nat /\ ticks \in 0..(MaxTicks + 1)
    /\ rootPresent \in BOOLEAN /\ containerPresent \in BOOLEAN
    /\ enforceHint \in BOOLEAN /\ initialized \in BOOLEAN
    /\ navDisabled \in BOOLEAN
    /\ items \in Pages \cup {LongPage}

\* The state when the script has been evaluated, on one of the given pages.
Start(pages) ==
    /\ now = 0 /\ ticks = 0
    /\ rootPresent \in BOOLEAN
    /\ containerPresent \in BOOLEAN
    /\ enforceHint \in BOOLEAN
    /\ items \in pages
    /\ visible = IF Len(items) > 0 THEN {1} ELSE {}
    /\ review = {}
    /\ navDisabled = FALSE
    /\ container = PriorContent
    /\ initialized = FALSE
    /\ currentQuestion = null
    /\ mediaCache = EmptyMap
    /\ observers = << >>
    /\ debounceTimers = EmptyMap
    /\ initPending = TRUE
    /\ timers = {}
    /\ mo = EmptyMap
    /\ inflight = << >>
    /\ latest = [k \in Names |-> "none"]
    /\ fired = [i \in 1..Len(items) |-> [disable |-> "never", hint |-> "never"]]
    /\ ev = NoEv

Init == Start(Pages)

\* ------------------------------------------------------------- the clock
Tick(d) ==
    /\ ticks < MaxTicks
    /\ now' = now + d
    /\ ticks' = ticks + 1
    /\ ev' = Ev("idle")
    /\ UNCHANGED <<domVars, watchVars, mediaVars, debVars, lifeVars, currentQuestion>>

\* ------------------------------------------------- applying a media load
NoLoadResult == [cache |-> mediaCache, container |-> container, info |-> NoLoad]

\* Variant: a new request aborts the ones in flight.
ApplyLoad_Supersede(L) ==
    /\ Len(inflight) + L.info.reqs <= MaxInFlight
    /\ mediaCache' = L.cache
    /\ container' = L.container
    /\ inflight' = IF L.info.reqs = 1 THEN NewRequests(L.info) ELSE inflight

ApplyLoad(L) ==
    /\ Len(inflight) + L.info.reqs <= MaxInFlight
    /\ mediaCache' = L.cache
    /\ container' = L.container
    /\ inflight' = inflight \o NewRequests(L.info)

LoadEv(op, L) ==
    [Ev(op) EXCEPT !.load = L.info,
                   !.render = IF L.info.hit THEN "media" ELSE "none"]

\* ------------------------------------------------------------ lifecycle
\* Variant: initialize gives up when the quiz root is absent.
Initialize_GiveUp ==
    /\ initPending
    /\ IF initialized
       THEN /\ initPending' = FALSE
            /\ ev' = Ev("initialize")
            /\ UNCHANGED <<initialized, mediaVars>>
       ELSE IF ~rootPresent
       THEN /\ initPending' = FALSE
            /\ ev' = Ev("initialize")
            /\ UNCHANGED <<initialized, mediaVars>>
       ELSE LET currentQuestionId == getCurrentQuestionId(items, visible, review)
                L == IF Truthy(currentQuestionId)
                     THEN loadQuestionMedia(mediaCache, containerPresent, container,
                                            currentQuestionId, FALSE, now)
                     ELSE NoLoadResult
            IN  /\ initialized' = TRUE
                /\ initPending' = FALSE
                /\ ApplyLoad(L)
                /\ ev' = LoadEv("initialize", L)
    /\ UNCHANGED <<clockVars, domVars, watchVars, debVars, currentQuestion>>

\* initialize(), run by $(document).ready or by requestAnimationFrame.
Initialize ==
    /\ initPending
    /\ IF initialized
       THEN /\ initPending' = FALSE
            /\ ev' = Ev("initialize")
            /\ UNCHANGED <<initialized, mediaVars>>
       ELSE IF ~rootPresent
       THEN /\ initPending' = TRUE
            /\ ev' = Ev("initialize")
            /\ UNCHANGED <<initialized, mediaVars>>
       ELSE LET currentQuestionId == getCurrentQuestionId(items, visible, review)
                L == IF Truthy(currentQuestionId)
                     THEN loadQuestionMedia(mediaCache, containerPresent, container,
                                            currentQuestionId, FALSE, now)
                     ELSE NoLoadResult
            IN  /\ initialized' = TRUE
                /\ initPending' = FALSE
                /\ ApplyLoad(L)
                /\ ev' = LoadEv("initialize", L)
    /\ UNCHANGED <<clockVars, domVars, watchVars, debVars, currentQuestion>>

\* The quiz widget inserts its root element.
RootAppears ==
    /\ ~rootPresent
    /\ rootPresent' = TRUE
    /\ ev' = Ev("idle")
    /\ UNCHANGED <<clockVars, containerPresent, enforceHint, items, visible, review,
                   watchVars, mediaVars, debVars, lifeVars, currentQuestion>>

\* The quiz widget shows question i / marks one question or none as the
\* review target.
WidgetShow(i) ==
    /\ i \in 1..Len(items)
    /\ visible # {i}
    /\ visible' = {i}
    /\ ev' = Ev("idle")
    /\ UNCHANGED <<clockVars, rootPresent, containerPresent, enforceHint, items,
                   review, watchVars, mediaVars, debVars, lifeVars, currentQuestion>>

\* The quiz widget hides every question (as before the quiz is started).
WidgetHide ==
    /\ visible # {}
    /\ visible' = {}
    /\ ev' = Ev("idle")
    /\ UNCHANGED <<clockVars, rootPresent, containerPresent, enforceHint, items,
                   review, watchVars, mediaVars, debVars, lifeVars, currentQuestion>>

WidgetReview(S) ==
    /\ S \subseteq 1..Len(items)
    /\ Cardinality(S) <= 1
    /\ review # S
    /\ review' = S
    /\ ev' = Ev("idle")
    /\ UNCHANGED <<clockVars, rootPresent, containerPresent, enforceHint, items,
                   visible, watchVars, mediaVars, debVars, lifeVars, currentQuestion>>

\* ----------------------------------------------------- delegated clicks
\* A click on a .wpProQuiz_button or a .wpProQuiz_listItem.
ClickNav ==
    /\ initialized
    /\ SetDState(debounce(DState, NavKey, "navigation", 0, debounceDelay, now))
    /\ ev' = Ev("click")
    /\ UNCHANGED <<clockVars, domVars, watchVars, mediaVars, lifeVars, currentQuestion>>

\* A click on the answer input of item i: the input handler (when hint
\* enforcement is on), then, bubbling, the list-item handler.
ClickInput(i) ==
    /\ initialized
    /\ i \in 1..Len(items)
    /\ LET S1 == IF enforceHint
                 THEN debounce(DState, AnswerKey(i - 1), "answer-check", i,
                               answerCheckDelay, now)
                 ELSE DState
           S2 == debounce(S1, NavKey, "navigation", 0, debounceDelay, now)
       IN  /\ Len(observers) + Cardinality({t \in S2.tm : t.fn = "answer-check"})
                 <= MaxObservers
           /\ SetDState(S2)
    /\ ev' = Ev("click")
    /\ UNCHANGED <<clockVars, domVars, watchVars, mediaVars, lifeVars, currentQuestion>>

\* --------------------------------------------------- debounce timers fire
Ran(t) == IF t.stale THEN latest ELSE [latest EXCEPT ![t.key] = "ran"]

\* The timeout callback of debounce for the 'navigation' name: the closure of
\* setupQuestionNavigation, then the registration is cleared.
NavigationFire(t) ==
    /\ t \in timers
    /\ t.fn = "navigation"
    /\ now >= t.deadline
    /\ LET questionId == getCurrentQuestionId(items, visible, review)
           go == Truthy(questionId) /\ questionId # currentQuestion
           L == IF go
                THEN loadQuestionMedia(mediaCache, containerPresent, container,
                                       questionId, FALSE, now)
                ELSE NoLoadResult
       IN  /\ currentQuestion' = IF go THEN questionId ELSE currentQuestion
           /\ ApplyLoad(L)
           /\ ev' = [LoadEv("fire", L) EXCEPT !.timer = Fired(t)]
    /\ timers' = timers \ {t}
    /\ debounceTimers' = afterAction(debounceTimers, t.key, FALSE)
    /\ latest' = Ran(t)
    /\ UNCHANGED <<clockVars, domVars, watchVars, lifeVars>>

Connected(m, i) == {o \in DOMAIN m : m[o].connected /\ m[o].item = i}

\* The timeout callback of debounce for an 'answer-check-<index>' name: the
\* closure calls checkAnswerAndEnforceHint; observe() throws a TypeError when
\* the input has no enclosing wrapper, and then the registration stays.
AnswerCheckFire(t) ==
    /\ t \in timers
    /\ t.fn = "answer-check"
    /\ now >= t.deadline
    /\ timers' = timers \ {t}
    /\ latest' = Ran(t)
    /\ LET threw == ~items[t.item].hasWrapper
           id == Min((1..(Cardinality(DOMAIN mo) + 1)) \ DOMAIN mo)
       IN  /\ debounceTimers' = afterAction(debounceTimers, t.key, threw)
           /\ ev' = [Ev("fire") EXCEPT !.timer = Fired(t), !.item = t.item, !.threw = threw]
           /\ IF threw
              THEN UNCHANGED <<mo, observers, fired>>
              ELSE /\ mo' = (id :> [item |-> t.item, connected |-> TRUE]) @@ mo
                   /\ observers' = Append(observers, id)
                   /\ fired' = IF Connected(mo, t.item) = {}
                               THEN [fired EXCEPT ![t.item] =
                                        [disable |-> "never", hint |-> "never"]]
                               ELSE fired
    /\ UNCHANGED <<clockVars, domVars, navDisabled, mediaVars, lifeVars,
                   currentQuestion>>

\* ------------------------------------------------------- answer watcher
Markers == {"none", "incorrect", "correct"}

\* Calls of handleIncorrectAnswer one observer callback makes when it is
\* handed `records` class mutations of a wrapper carrying marker m: forEach
\* visits every record, and disconnect() does not end the loop.
IncorrectCalls(m, records) == IF m = "incorrect" THEN records ELSE 0

\* How often a handler has run once it runs n more times.
Often(sofar, n) ==
    IF n = 0 THEN sofar
    ELSE IF sofar = "never" /\ n = 1 THEN "once" ELSE "repeatedly"

\* The observers the delivery resolves (they call disconnect()).
\* Variant: any class mutation resolves the observer.
Resolve_AnyMutation(mobs, conn, m) ==
    [o \in DOMAIN mobs |->
        IF o \in conn
        THEN [mobs[o] EXCEPT !.connected = FALSE] ELSE mobs[o]]

Resolve(mobs, conn, m) ==
    [o \in DOMAIN mobs |->
        IF o \in conn /\ m # "none"
        THEN [mobs[o] EXCEPT !.connected = FALSE] ELSE mobs[o]]

\* A task of the quiz widget changes the class attribute of the answer wrapper
\* of item i `records` times, leaving marker m; at the end of the task every
\* observer of the wrapper gets its callback with those records.  The script
\* reads the wrapper's classes nowhere else, so they are not kept as state.
WidgetMutate(i, m, records) ==
    /\ i \in 1..Len(items)
    /\ items[i].hasWrapper
    /\ LET conn == Connected(mo, i)
           nInc == IncorrectCalls(m, records) * Cardinality(conn)
           nTip == IF items[i].hasTip THEN nInc ELSE 0
           correct == m = "correct" /\ conn # {}
       IN  /\ navDisabled' = IF nInc > 0 THEN TRUE
                             ELSE IF correct THEN FALSE ELSE navDisabled
           /\ mo' = Resolve(mo, conn, m)
           /\ SetDState(debounceTimes(nTip, DState, NavKey, "navigation", 0,
                                      debounceDelay, now))
           /\ fired' = [fired EXCEPT ![i] = [disable |-> Often(@.disable, nInc),
                                             hint |-> Often(@.hint, nTip)]]
           /\ ev' = IF conn = {} THEN Ev("idle")
                    ELSE [Ev("mutate") EXCEPT !.item = i, !.records = records,
                             !.marker = m, !.watchers = Cardinality(conn)]
    /\ UNCHANGED <<clockVars, domVars, observers, mediaVars, lifeVars, currentQuestion>>

\* ------------------------------------------------------------- teardown
\* Variant: the pending timeouts are left running.
clearTimers_Skip(tm, dt) == tm

clearTimers(tm, dt) == {t \in tm : t.id \notin Range(dt)}

\* observer.disconnect() on every stored observer; observers that are
\* disconnected and no longer referenced are forgotten.
disconnectAll(mobs, obs) ==
    LET after == [o \in DOMAIN mobs |->
                    IF o \in Range(obs)
                    THEN [mobs[o] EXCEPT !.connected = FALSE] ELSE mobs[o]]
    IN  [o \in {x \in DOMAIN after : after[x].connected} |-> after[o]]

\* Variant: cleanup aborts the requests in flight.
requestsAfterCleanup_Abort(reqs) == << >>

\* fetch() is given no AbortSignal: cleanup leaves the requests alone.
requestsAfterCleanup(reqs) == [k \in 1..Len(reqs) |-> [reqs[k] EXCEPT !.pre = TRUE]]

Cleanup ==
    /\ timers' = clearTimers(timers, debounceTimers)
    /\ debounceTimers' = EmptyMap
    /\ mo' = disconnectAll(mo, observers)
    /\ observers' = << >>
    /\ mediaCache' = EmptyMap
    /\ inflight' = requestsAfterCleanup(inflight)
    /\ latest' = [k \in Names |->
                    IF latest[k] = "scheduled" THEN "cancelled" ELSE latest[k]]
    /\ ev' = [Ev("cleanup") EXCEPT !.had =
                [timers |-> Cardinality(timers),
                 armed |-> Cardinality({o \in DOMAIN mo : mo[o].connected}),
                 cache |-> Cardinality(DOMAIN mediaCache)]]
    /\ UNCHANGED <<clockVars, domVars, navDisabled, fired, container, lifeVars,
                   currentQuestion>>

\* --------------------------------------------------- fetch continuation
\* .then(response => response.json()).then(data => ...).catch(...)
\* Variant: the payload is cached under the question current at response time.
onResponse_CurrentKey(cache, present, cont, questionId, resp, t) ==
    IF resp.kind = "media"
    THEN [cache |-> cacheMedia(cache, currentQuestion, resp.media, t),
          container |-> displayMedia(present, cont, resp.media),
          wrote |-> TRUE, render |-> "media"]
    ELSE [cache |-> cache,
          container |-> displayFallbackMedia(present, cont),
          wrote |-> FALSE, render |-> "fallback"]

onResponse(cache, present, cont, questionId, resp, t) ==
    IF resp.kind = "media"
    THEN [cache |-> cacheMedia(cache, questionId, resp.media, t),
          container |-> displayMedia(present, cont, resp.media),
          wrote |-> TRUE, render |-> "media"]
    ELSE [cache |-> cache,
          container |-> displayFallbackMedia(present, cont),
          wrote |-> FALSE, render |-> "fallback"]

\* The requests still in flight once the k-th has been answered.
Settle(reqs, k) ==
    [j \in 1..(Len(reqs) - 1) |->
        IF j < k THEN [reqs[j] EXCEPT !.overtaken = TRUE] ELSE reqs[j + 1]]

Respond(k, resp) ==
    /\ k \in 1..Len(inflight)
    /\ LET r == inflight[k]
           R == onResponse(mediaCache, containerPresent, container, r.q, resp, now)
       IN  /\ mediaCache' = R.cache
           /\ container' = R.container
           /\ ev' = [Ev("response") EXCEPT !.req = r, !.resp = resp,
                                          !.wrote = R.wrote, !.render = R.render]
    /\ inflight' = Settle(inflight, k)
    /\ UNCHANGED <<clockVars, domVars, watchVars, debVars, lifeVars, currentQuestion>>

\* ------------------------------------------- direct call of the fetcher
QuestionIds == {1, 2}

LoadCall(questionId, force) ==
    /\ LET L == loadQuestionMedia(mediaCache, containerPresent, container,
                                  questionId, force, now)
       IN  /\ ApplyLoad(L)
           /\ ev' = LoadEv("load", L)
    /\ UNCHANGED <<clockVars, domVars, watchVars, debVars, lifeVars, currentQuestion>>

\* --------------------------------------------------------- specifications
\* The script on a page whose host switches hint enforcement off: no answer
\* handler is registered, no observer is ever created and the wrappers'
\* classes are never read.
Next ==
    \/ \E d \in TimeSteps : Tick(d)
    \/ Initialize
    \/ RootAppears
    \/ \E i \in 1..2 : WidgetShow(i)
    \/ ClickNav
    \/ \E i \in 1..2 : ClickInput(i)
    \/ \E t \in timers : NavigationFire(t)
    \/ Cleanup
    \/ \E k \in 1..Len(inflight) : \E resp \in Responses(inflight[k].q) : Respond(k, resp)

InitOff == Init /\ ~enforceHint /\ containerPresent /\ Len(items) # 1

Spec == InitOff /\ [][Next]_vars

\* An endpoint that answers with an image or with a failure.
PlainResponses(q) == {[kind |-> "fail", media |-> NoMedia],
                      [kind |-> "media", media |-> [type |-> "image", url |-> q]]}

\* The fetcher called directly (with and without force) on a page without
\* questions, with nobody clicking.
NextApi ==
    \/ \E d \in TimeSteps : Tick(d)
    \/ Initialize
    \/ RootAppears
    \/ \E q \in QuestionIds \cup {null}, force \in BOOLEAN : LoadCall(q, force)
    \/ Cleanup
    \/ \E k \in 1..Len(inflight) : \E resp \in PlainResponses(inflight[k].q) : Respond(k, resp)

InitApi == InitOff /\ items = << >>

SpecApi == InitApi /\ [][NextApi]_vars

\* The script with hint enforcement on, on a one-question page without a
\* media container, while the endpoint has not answered yet.
NextHint ==
    \/ \E d \in TimeSteps : Tick(d)
    \/ Initialize
    \/ RootAppears
    \/ ClickNav
    \/ \E i \in 1..2 : ClickInput(i)
    \/ \E t \in timers : NavigationFire(t)
    \/ \E t \in timers : AnswerCheckFire(t)
    \/ \E i \in 1..2, m \in Markers, k \in 1..MaxRecords : WidgetMutate(i, m, k)
    \/ Cleanup

InitOn == Init /\ enforceHint /\ ~containerPresent /\ Len(items) = 1

SpecHint == InitOn /\ [][NextHint]_vars

\* The same on a ready page with the hint button, with the endpoint answering
\* and the user clicking answer inputs only.
NextFull ==
    \/ \E d \in TimeSteps : Tick(d)
    \/ Initialize
    \/ \E i \in 1..2 : ClickInput(i)
    \/ \E t \in timers : NavigationFire(t)
    \/ \E t \in timers : AnswerCheckFire(t)
    \/ \E i \in 1..2, m \in Markers, k \in 1..MaxRecords : WidgetMutate(i, m, k)
    \/ Cleanup
    \/ \E k \in 1..Len(inflight) : \E resp \in PlainResponses(inflight[k].q) : Respond(k, resp)

InitFull == InitOn /\ rootPresent /\ items = <<ItemA>>

SpecFull == InitFull /\ [][NextFull]_vars

\* Start-up: the script waiting for the quiz root on a page with one question,
\* then the first clicks.  The browser runs a requested animation-frame
\* callback at the next frame.
NextBoot ==
    \/ \E d \in TimeSteps : Tick(d)
    \/ Initialize
    \/ RootAppears
    \/ ClickNav
    \/ \E t \in timers : NavigationFire(t)
    \/ Cleanup
    \/ \E k \in 1..Len(inflight) : \E resp \in PlainResponses(inflight[k].q) : Respond(k, resp)

InitBoot == Init /\ ~enforceHint /\ containerPresent /\ Len(items) = 1

SpecBoot == InitBoot /\ [][NextBoot]_vars /\ WF_vars(Initialize)

\* Navigation on a ready page: the widget shows, hides and marks questions,
\* the user clicks, while the endpoint has not answered yet.
NextNav ==
    \/ \E d \in TimeSteps : Tick(d)
    \/ Initialize
    \/ \E i \in 1..3 : WidgetShow(i)
    \/ WidgetHide
    \/ \E S \in SUBSET (1..3) : WidgetReview(S)
    \/ ClickNav
    \/ \E t \in timers : NavigationFire(t)

InitNav ==
    /\ Start({LongPage, << >>})
    /\ rootPresent /\ ~enforceHint /\ containerPresent

SpecNav == InitNav /\ [][NextNav]_vars

\* Hint enforcement on a ready page that shows two questions at once.
NextTwo ==
    \/ \E d \in TimeSteps : Tick(d)
    \/ Initialize
    \/ \E i \in 1..2 : ClickInput(i)
    \/ \E t \in timers : NavigationFire(t)
    \/ \E t \in timers : AnswerCheckFire(t)
    \/ \E i \in 1..2, m \in Markers : WidgetMutate(i, m, 1)

InitTwo == Init /\ enforceHint /\ rootPresent /\ ~containerPresent /\ Len(items) = 2

SpecTwo == InitTwo /\ [][NextTwo]_vars

\* The fetcher and its cache alone, while the quiz root has not appeared yet.
NextCache ==
    \/ \E d \in TimeSteps : Tick(d)
    \/ \E q \in QuestionIds, force \in BOOLEAN : LoadCall(q, force)
    \/ Cleanup
    \/ \E k \in 1..Len(inflight) : \E resp \in PlainResponses(inflight[k].q) : Respond(k, resp)

InitCache == InitApi /\ ~rootPresent

SpecCache == InitCache /\ [][NextCache]_vars

\* ================================================================ claims
Fresh(entry, t) == entry # NoEntry /\ t - entry.timestamp < cacheTimeout
Pending(k) == {t \in timers : t.key = k}

\* C1: a payload put under key k with cacheMedia is stored with the current
\* time; a later getCachedMedia(k) returns that payload while less than
\* cacheTimeout has passed since it was stored, and otherwise returns null and
\* leaves no entry for k.
C1_CacheTtl ==
    /\ (ev.op = "response" /\ ev.wrote)
          => /\ ev.req.q \in DOMAIN mediaCache
             /\ mediaCache[ev.req.q] = [data |-> ev.resp.media, timestamp |-> now]
    /\ (ev.load.called /\ ~ev.load.force /\ ev.load.before # NoEntry)
          => IF now - ev.load.before.timestamp < cacheTimeout
             THEN /\ ev.load.ret = ev.load.before.data
                  /\ ev.load.q \in DOMAIN mediaCache
                  /\ mediaCache[ev.load.q] = ev.load.before
             ELSE /\ ev.load.ret = NoMedia
                  /\ ev.load.q \notin DOMAIN mediaCache

C1_Witness ==
    /\ ev.load.called /\ ~ev.load.force
    /\ ev.load.before # NoEntry
    /\ now - ev.load.before.timestamp >= cacheTimeout
    /\ ev.load.ret = NoMedia
    /\ ev.load.q \notin DOMAIN mediaCache

\* C2: of the calls of one burst under a name (each made before the delay of
\* the previous one has passed, no cleanup in between) only the last call's
\* action runs, and it runs once: a superseded action never runs, while the
\* last call is scheduled exactly its timer is pending under the name, and
\* once it has run none is.
C2_BurstRunsLastOnce ==
    /\ ev.op = "fire" => ~ev.timer.stale
    /\ \A k \in Names :
          /\ latest[k] = "scheduled"
                => /\ Cardinality(Pending(k)) = 1
                   /\ \A t \in Pending(k) : ~t.stale
          /\ latest[k] = "ran" => Pending(k) = {}

C2_Witness ==
    /\ ev.op = "fire"
    /\ ev.timer.burst
    /\ ~ev.timer.stale
    /\ latest[ev.timer.key] = "ran"

\* C3: each debounce name has at most one pending timer, and right after a
\* click has scheduled the navigation action the only timer pending under
\* that name is the one just started.
C3_OneTimerPerName ==
    /\ \A k \in Names : Cardinality(Pending(k)) <= 1
    /\ ev.op = "click" => \A t \in Pending(NavKey) : t.deadline = now + debounceDelay

C3_Witness ==
    /\ ev.op = "click"
    /\ \E t \in Pending(NavKey) : t.burst /\ t.deadline = now + debounceDelay
    /\ Cardinality(Pending(NavKey)) = 1

\* C4: loadQuestionMedia(q, false) on a non-expired cached entry renders the
\* cached payload and sends no request; loadQuestionMedia(q, true) sends
\* exactly one request whatever the cache holds.
C4_CacheFirstUnlessForced ==
    (ev.load.called /\ Truthy(ev.load.q))
       => /\ (~ev.load.force /\ Fresh(ev.load.before, now))
                => /\ Len(inflight) = ev.nreq
                   /\ ev.render = "media"
                   /\ container = displayMedia(TRUE, container, ev.load.before.data)
          /\ ev.load.force
                => /\ Len(inflight) = ev.nreq + 1
                   /\ inflight[Len(inflight)].q = ev.load.q

C4_Witness ==
    /\ ev.load.called /\ ev.load.force
    /\ Fresh(ev.load.before, now)
    /\ Len(inflight) = ev.nreq + 1

WellFormed(m) == m.type \in {"image", "video"} /\ m.url # NoUrl
OneOf(cont, tags) == Len(cont) = 1 /\ cont[1].tag \in tags

\* C5: a media request that ends in a transport or parse failure, or in a
\* successful response whose payload is missing or is not a well-formed media
\* descriptor, leaves the container showing the fallback and stores nothing in
\* the cache for the question.
C5_FailureShowsFallback ==
    (ev.op = "response" /\ (ev.resp.kind # "media" \/ ~WellFormed(ev.resp.media)))
       => /\ container = FallbackMarkup
          /\ ~(ev.req.q \in DOMAIN mediaCache
               /\ mediaCache[ev.req.q].data = ev.resp.media)

\* C6: after a render the container holds exactly one img element, one video
\* element or the fallback markup.
C6_RenderIsOneElement ==
    (ev.render # "none" /\ containerPresent)
       => OneOf(container, {"img", "video", "div.no-media"})

\* C7: on an armed wrapper the incorrect marker triggers the disable-navigation
\* action and the hint-display action exactly once in total, however many class
\* mutations are delivered and however often the input was clicked.
C7_IncorrectHandledOnce ==
    /\ \A i \in 1..Len(items) :
          fired[i].disable # "repeatedly" /\ fired[i].hint # "repeatedly"
    /\ (ev.op = "mutate" /\ ev.marker = "incorrect")
          => /\ fired[ev.item].disable = "once"
             /\ items[ev.item].hasTip => fired[ev.item].hint = "once"

\* C8: right after cleanup no timeout is pending, no observer is connected,
\* and debounceTimers, observers and mediaCache are empty, so nothing that was
\* pending or armed before can fire or react later.
C8_CleanupReleasesAll ==
    ev.op = "cleanup"
       => /\ timers = {}
          /\ \A o \in DOMAIN mo : ~mo[o].connected
          /\ DOMAIN debounceTimers = {}
          /\ observers = << >>
          /\ DOMAIN mediaCache = {}

C8_Witness ==
    /\ ev.op = "cleanup"
    /\ ev.had.timers > 0 /\ ev.had.armed > 0 /\ ev.had.cache > 0
    /\ timers = {}
    /\ DOMAIN mo = {}
    /\ DOMAIN mediaCache = {}

\* C9 as stated: the continuation of a request sent before cleanup and
\* answered after it neither writes the cache nor touches the container.
C9_StaleContinuationSilent ==
    (ev.op = "response" /\ ev.req.pre) => (~ev.wrote /\ ev.render = "none")

\* C9 amended: cleanup leaves every request in flight, and the continuation of
\* a request sent before cleanup runs as for any other request: a response
\* with media is cached under its question and rendered, any other outcome
\* renders the fallback.
C9_CleanupKeepsRequests ==
    /\ ev.op = "cleanup"
          => /\ Len(inflight) = ev.nreq
             /\ \A k \in 1..Len(inflight) : inflight[k].pre
    /\ (ev.op = "response" /\ ev.req.pre)
          => IF ev.resp.kind = "media"
             THEN /\ ev.req.q \in DOMAIN mediaCache
                  /\ mediaCache[ev.req.q] = [data |-> ev.resp.media, timestamp |-> now]
                  /\ container = displayMedia(containerPresent, container, ev.resp.media)
             ELSE container = displayFallbackMedia(containerPresent, container)

C9_Witness ==
    /\ ev.op = "response"
    /\ ev.req.pre
    /\ ev.resp.kind = "media"
    /\ DOMAIN mediaCache = {ev.req.q}
    /\ OneOf(container, {"img"})

\* C10: sending a request cancels none of the requests in flight, and the
\* container shows the outcome of the response that resolved last, whichever
\* question is current.
C10_LastResponseWins ==
    /\ (ev.load.called /\ ev.load.reqs = 1) => Len(inflight) = ev.nreq + 1
    /\ ev.load.hit => container = displayMedia(containerPresent, container, ev.load.ret)
    /\ ev.op = "response"
          => /\ Len(inflight) = ev.nreq - 1
             /\ container = IF ev.resp.kind = "media"
                            THEN displayMedia(containerPresent, container, ev.resp.media)
                            ELSE displayFallbackMedia(containerPresent, container)

\* A stale render: question 2 is current and its response has resolved, then
\* the response to the older request for question 1 puts its image up.
C10_Witness ==
    /\ ev.op = "response"
    /\ ev.req.overtaken
    /\ ev.req.q = 1 /\ currentQuestion = 2
    /\ ev.resp.media = [type |-> "image", url |-> 1]
    /\ container = <<[tag |-> "img", src |-> 1]>>

Armed(m, o) == o \in DOMAIN m /\ m[o].connected

\* C11: a watcher stops being armed only in a task that delivers a class
\* mutation of its wrapper carrying the incorrect or the correct marker, or in
\* cleanup; a delivery with neither marker changes neither the watchers nor
\* the navigation controls nor the timers; no other task (time passing
\* included) disarms a watcher, and a resolved watcher is never armed again.
C11_ArmedUntilOutcomeOrTeardown ==
    [][/\ \A o \in DOMAIN mo :
             /\ (Armed(mo, o) /\ ~Armed(mo', o))
                   => \/ ev'.op = "cleanup"
                      \/ /\ ev'.op = "mutate"
                         /\ ev'.item = mo[o].item
                         /\ ev'.marker \in {"incorrect", "correct"}
             /\ (~Armed(mo, o) /\ ev'.op # "cleanup") => ~Armed(mo', o)
       /\ (ev'.op = "mutate" /\ ev'.marker = "none")
             => /\ mo' = mo
                /\ UNCHANGED <<navDisabled, observers, debVars, fired>>
      ]_vars

C11_Witness ==
    /\ ev.op = "mutate"
    /\ ev.marker = "none"
    /\ ticks > 1
    /\ Connected(mo, ev.item) # {}
    /\ ~navDisabled

\* C12: while the quiz root is absent a run of initialize wires nothing, sends
\* no request and leaves a retry scheduled, however late it is; until
\* initialization no timer and no request exists; once the root is present
\* initialization eventually completes; and the wiring and the initial load
\* happen in one run of initialize only, after which the script stays
\* initialized.
C12_InitGatedOnRoot ==
    /\ [](initPending <=> ~initialized)
    /\ [](~initialized => (timers = {} /\ inflight = << >> /\ DOMAIN mediaCache = {}))
    /\ [][/\ (ev'.op = "initialize" /\ ~rootPresent)
                => (~initialized' /\ initPending' /\ UNCHANGED <<mediaVars, debVars>>)
          /\ initialized => initialized'
          /\ (ev'.op = "initialize" /\ ev'.load.called) => (~initialized /\ initialized')
         ]_vars
    /\ (rootPresent ~> initialized)

C12_Witness ==
    /\ ev.op = "initialize"
    /\ ~rootPresent
    /\ ticks = MaxTicks
    /\ ~initialized /\ initPending
    /\ inflight = << >>

\* The identifier an item stands for: its own attribute, else a descendant's,
\* else its 1-based position.
IdentifierOf(i) ==
    IF items[i].ownId # NoAttr THEN items[i].ownId
    ELSE IF items[i].descId # NoAttr THEN items[i].descId
    ELSE i

Located == getCurrentQuestionId(items, visible, review)

C14_LazyLocalEviction ==
    [][/\ \A k \in DOMAIN mediaCache :
             /\ k \notin DOMAIN mediaCache'
                   => \/ ev'.op = "cleanup"
                      \/ /\ ev'.load.called /\ ~ev'.load.force
                         /\ ev'.load.q = k
                         /\ ~Fresh(mediaCache[k], now)
             /\ (k \in DOMAIN mediaCache' /\ mediaCache'[k] # mediaCache[k])
                   => (ev'.op = "response" /\ ev'.wrote /\ ev'.req.q = k)
       /\ \A k \in DOMAIN mediaCache' \ DOMAIN mediaCache :
             ev'.op = "response" /\ ev'.wrote /\ ev'.req.q = k
       /\ (ev'.load.called /\ ~ev'.load.force /\ Fresh(ev'.load.before, now))
             => mediaCache' = mediaCache
      ]_vars

\* An expired entry is evicted by a read of its key while the expired entry
\* of the other key stays.
C14_Witness ==
    /\ ev.load.called /\ ~ev.load.force
    /\ ev.load.before # NoEntry
    /\ ~Fresh(ev.load.before, now)
    /\ ev.load.q \notin DOMAIN mediaCache
    /\ \E k \in DOMAIN mediaCache : ~Fresh(mediaCache[k], now)

\* C15: between tasks debounceTimers has an entry for a name exactly when a
\* timer is pending under that name, also after a timer whose action threw.
C15_RegisteredIffPending ==
    \A k \in Names : (k \in DOMAIN debounceTimers) <=> (Pending(k) # {})

\* C16: the observers held in state.observers are exactly the armed ones, so
\* their number does not grow with the attempts that have been resolved.
C16_HeldAreArmed ==
    /\ Range(observers) = {o \in DOMAIN mo : Armed(mo, o)}
    /\ Len(observers) = Cardinality({o \in DOMAIN mo : Armed(mo, o)})

\* Questions whose last outcome, since their wrapper was armed, is incorrect.
AnsweredWrong == {i \in 1..Len(items) : fired[i].disable # "never"}

\* C17: while a question that was answered incorrectly has had no correct
\* outcome, navigation stays disabled, whatever the outcome of other
\* questions; navigation is re-enabled only by a correct outcome.
C17_DisabledUntilCorrect ==
    /\ AnsweredWrong # {} => navDisabled
    /\ (ev.op = "mutate" /\ ev.marker = "incorrect") => navDisabled

\* C18: a navigation timer that fires starts a load only for a non-empty id
\* that it records as current, and no load is started for the question whose
\* load came last, the load of initialization included: while no response has
\* arrived the requests in flight are the loads started, in order, and no two
\* neighbours are for the same question.
C18_NoReloadOfCurrent ==
    /\ (ev.op = "fire" /\ ev.load.called)
          => (Truthy(ev.load.q) /\ currentQuestion = ev.load.q)
    /\ \A k \in 1..(Len(inflight) - 1) : inflight[k].q # inflight[k + 1].q

\* C19: every mediaCache entry under key q holds a payload the endpoint
\* returned for q, and a response that is cached is stored under the question
\* its request was sent for, in whatever order the responses arrive.
C19_EntryBelongsToKey ==
    /\ \A q \in DOMAIN mediaCache : mediaCache[q].data \in Payloads(q)
    /\ (ev.op = "response" /\ ev.wrote)
          => /\ ev.req.q \in DOMAIN mediaCache
             /\ mediaCache[ev.req.q].data = ev.resp.media
             /\ \A q \in DOMAIN mediaCache \ {ev.req.q} : mediaCache[q].data # ev.resp.media

\* The older request is answered after the newer one; both entries sit under
\* their own keys.
C19_Witness ==
    /\ ev.op = "response" /\ ev.wrote
    /\ ev.req.overtaken
    /\ ev.req.q # currentQuestion
    /\ DOMAIN mediaCache = {1, 2}
    /\ mediaCache[ev.req.q].data = ev.resp.media

====
